---- MODULE Spec2Model ----
(***************************************************************************)
(* Model of the DevNote blog search path: SearchService (the in-memory     *)
(* search index, relevance scoring, highlighting, pagination and the       *)
(* "search" result cache put in front of searchPosts), the PostService     *)
(* operations that feed the index (createPost, updatePost, deletePost) and *)
(* the PostController search endpoint that builds the Pageable; further    *)
(* PostService.getPost behind its "post" cache with the view count it      *)
(* keeps, and a performSearch that runs next to concurrent index writers.  *)
(*                                                                         *)
(* Java Strings are sequences of one-character strings.  A null String is  *)
(* the value Null.  Scores are the doubles 3.0, 1.0, 2.0 of the source,    *)
(* written as the integers 3, 1, 2 (only sums of them occur).              *)
(***************************************************************************)
EXTENDS Integers, Sequences, FiniteSets, TLC

\* ------------------------------------------------------------------ bounds
\* Post ids are 1..MaxId (Long ids handed out by the IDENTITY column).
MaxId == 2
\* The number of calls a behaviour of the model makes.
MaxCalls == 4

Ids == 1..MaxId

\* The ObjectIds the Node routes hand out are 1..MaxObjects, in this order.
MaxObjects == 3
\* The requests that can be in progress at the same time.
MaxThreads == 2

Threads == 1..MaxThreads
\* A well-formed ObjectId that no document was ever given.
UnknownId == MaxObjects + 1
\* A null reference to a document (parentComment: null).
NoId == 0

\* ----------------------------------------------------------------- strings
\* A null String reference (never equal to a sequence of characters).
Null == <<"NULL">>

\* String.valueOf(null), as string concatenation renders a null reference.
NullText == <<"n", "u", "l", "l">>

\* Character.toLowerCase on the characters of the model.
toLowerChar(c) ==
    CASE c = "A" -> "a"
      [] c = "B" -> "b"
      [] OTHER -> c

\* String.toLowerCase
toLowerCase(s) == [i \in 1..Len(s) |-> toLowerChar(s[i])]

\* The characters String.trim strips and the regex class \s matches.
Whitespace == {" ", "\t"}

\* String.contains: q occurs in s as a contiguous substring.
contains(s, q) ==
    \E i \in 0..(Len(s) - Len(q)) : SubSeq(s, i + 1, i + Len(q)) = q

RECURSIVE trimLeft(_)
trimLeft(s) ==
    IF s # <<>> /\ Head(s) \in Whitespace THEN trimLeft(Tail(s)) ELSE s

RECURSIVE trimRight(_)
trimRight(s) ==
    IF s # <<>> /\ s[Len(s)] \in Whitespace
    THEN trimRight(SubSeq(s, 1, Len(s) - 1))
    ELSE s

\* String.trim
trim(s) == trimRight(trimLeft(s))

\* replaceAll("\\s+", " "): every maximal whitespace run becomes one space.
RECURSIVE collapseWhitespace(_)
collapseWhitespace(s) ==
    IF s = <<>> THEN <<>>
    ELSE IF Head(s) \in Whitespace
         THEN <<" ">> \o collapseWhitespace(trimLeft(s))
         ELSE <<Head(s)>> \o collapseWhitespace(Tail(s))

\* The decimal text of a number n >= 0, as string concatenation renders it.
DigitChars == <<"0", "1", "2", "3", "4", "5", "6", "7", "8", "9">>

RECURSIVE decimalText(_)
decimalText(n) ==
    IF n < 10 THEN <<DigitChars[n + 1]>>
    ELSE decimalText(n \div 10) \o <<DigitChars[(n % 10) + 1]>>

\* SearchService.normalizeQuery
normalizeQuery(query) == toLowerCase(collapseWhitespace(trim(query)))

\* query == null || query.trim().isEmpty()
isBlankQuery(query) == query = Null \/ trim(query) = <<>>

\* --------------------------------------------------------- SearchService
\* The markers highlightText puts around a match.
MarkOpen == "<mark>"
MarkClose == "</mark>"

\* The pattern "(?i)(" + query + ")" matches text at position i: the query
\* is compiled as a regular expression, so "." stands for any character and
\* every other character of the model stands for itself, case-insensitively.
regexMatchesAt(text, query, i) ==
    /\ i + Len(query) - 1 <= Len(text)
    /\ \A k \in 1..Len(query) :
          \/ query[k] = "."
          \/ toLowerChar(text[i + k - 1]) = toLowerChar(query[k])

\* Matcher.replaceAll from position i: leftmost matches, not overlapping.
RECURSIVE replaceAllFrom(_, _, _)
replaceAllFrom(text, query, i) ==
    IF i > Len(text)
    THEN IF query = <<>> THEN <<MarkOpen, MarkClose>> ELSE <<>>
    ELSE IF query = <<>>
         THEN <<MarkOpen, MarkClose, text[i]>> \o replaceAllFrom(text, query, i + 1)
         ELSE IF regexMatchesAt(text, query, i)
              THEN <<MarkOpen>> \o SubSeq(text, i, i + Len(query) - 1)
                       \o <<MarkClose>>
                       \o replaceAllFrom(text, query, i + Len(query))
              ELSE <<text[i]>> \o replaceAllFrom(text, query, i + 1)

\* SearchService.highlightText
highlightText(text, query) ==
    IF text = Null \/ query = Null THEN text
    ELSE replaceAllFrom(text, query, 1)

\* The tag loop of calculateRelevance: some tag contains the query.
tagMatches(tags, query) ==
    \E k \in 1..Len(tags) : contains(toLowerCase(tags[k]), toLowerCase(query))

\* The score with the break of the tag loop left out: 2 for every matching tag.
relevanceScoreEveryTag(index, query) ==
    (IF contains(toLowerCase(index.title), toLowerCase(query)) THEN 3 ELSE 0)
  + (IF contains(toLowerCase(index.content), toLowerCase(query)) THEN 1 ELSE 0)
  + 2 * Cardinality({k \in 1..Len(index.tags) :
                       contains(toLowerCase(index.tags[k]), toLowerCase(query))})

\* SearchService.calculateRelevance: the score of one index entry.
relevanceScore(index, query) ==
    (IF contains(toLowerCase(index.title), toLowerCase(query)) THEN 3 ELSE 0)
  + (IF contains(toLowerCase(index.content), toLowerCase(query)) THEN 1 ELSE 0)
  + (IF tagMatches(index.tags, query) THEN 2 ELSE 0)

\* calculateRelevance dereferences title and content: a null one throws
\* NullPointerException.
relevanceThrows(index) == index.title = Null \/ index.content = Null

\* SearchService.calculateRelevance: the SearchResult of one index entry.
calculateRelevance(index, query) ==
    [id |-> index.id,
     title |-> index.title,
     content |-> index.content,
     excerpt |-> index.excerpt,
     highlightedTitle |->
        IF contains(toLowerCase(index.title), toLowerCase(query))
        THEN highlightText(index.title, query) ELSE index.title,
     highlightedContent |->
        IF contains(toLowerCase(index.content), toLowerCase(query))
        THEN highlightText(index.content, query) ELSE index.content,
     score |-> relevanceScore(index, query)]

\* searchIndex.values(): the entries in the map's iteration order.  The keys
\* are small Long values, which a ConcurrentHashMap holds in ascending bins.
RECURSIVE indexValues(_)
indexValues(map) ==
    IF DOMAIN map = {} THEN <<>>
    ELSE LET k == CHOOSE x \in DOMAIN map : \A y \in DOMAIN map : x <= y
         IN <<map[k]>> \o indexValues([y \in DOMAIN map \ {k} |-> map[y]])

\* Stream.filter(result -> result.getScore() > 0)
filterMatches(results) == SelectSeq(results, LAMBDA r : r.score > 0)

\* The comparator with its arguments swapped back: ascending scores.
scoreBeforeAscending(a, b) == a.score < b.score

\* The comparator (a, b) -> Double.compare(b.getScore(), a.getScore()):
\* a is placed before b when its score is higher.
scoreBefore(a, b) == a.score > b.score

\* Inserts r into a list sorted by the comparator, after its equals.
RECURSIVE insertSorted(_, _)
insertSorted(sorted, r) ==
    IF sorted = <<>> THEN <<r>>
    ELSE IF scoreBefore(r, Head(sorted))
         THEN <<r>> \o sorted
         ELSE <<Head(sorted)>> \o insertSorted(Tail(sorted), r)

\* Stream.sorted(comparator): a stable sort of the list.
RECURSIVE sortedByScore(_)
sortedByScore(results) ==
    IF results = <<>> THEN <<>>
    ELSE insertSorted(sortedByScore(SubSeq(results, 1, Len(results) - 1)),
                      results[Len(results)])

\* SearchService.performSearch: score every entry, drop the zeros, sort.
performSearch(map, query) ==
    LET values == indexValues(map)
        scored == [i \in 1..Len(values) |-> calculateRelevance(values[i], query)]
    IN sortedByScore(filterMatches(scored))

\* performSearch throws when calculateRelevance throws on some entry.
performSearchThrows(map) == \E k \in DOMAIN map : relevanceThrows(map[k])

\* ------------------------------------------------------------ the inputs
\* Texts of the posts and queries the model draws from.
TextAb == <<"A", "b">>
TextB == <<"b">>
TextBa == <<"b", "a">>
TextBAb == <<"b", " ", "a", "B">>
TextAB == <<"a", " ", "b">>
TextLowerAb == <<"a", "b">>
TextBlank == <<" ", "\t">>

\* The Post objects (without their id) handed to indexPost.  For the query
\* "ab": PostFull matches in title, content and two tags; PostContent in the
\* content only; PostNoMatch nowhere (its excerpt does, and its tags "a" and
\* "b" do not); PostInvalid has an empty title and no content.
PostFull ==
    [title |-> TextAb, content |-> TextBAb, excerpt |-> Null,
     tags |-> <<TextLowerAb, <<"a", "b", "b">>>>]
PostContent ==
    [title |-> TextB, content |-> TextLowerAb, excerpt |-> TextB,
     tags |-> <<TextB>>]
PostNoMatch ==
    [title |-> TextBa, content |-> TextAB, excerpt |-> TextLowerAb,
     tags |-> <<<<"a">>, TextB>>]
PostInvalid ==
    [title |-> <<>>, content |-> Null, excerpt |-> Null, tags |-> <<>>]

PostPool == {PostFull, PostContent, PostNoMatch, PostInvalid}

\* The Post object with the fields of post and the given id.
postWithId(id, post) ==
    [id |-> id, title |-> post.title, content |-> post.content,
     excerpt |-> post.excerpt, tags |-> post.tags]

\* The PostCreateRequest / PostUpdateRequest bodies: title, excerpt, content
\* and status (a value of Post.Status).
RequestPool ==
    {[title |-> TextAb, excerpt |-> Null, content |-> TextBAb,
      status |-> "PUBLISHED"],
     [title |-> TextB, excerpt |-> TextLowerAb, content |-> TextLowerAb,
      status |-> "DRAFT"],
     [title |-> TextBlank, excerpt |-> Null, content |-> TextLowerAb,
      status |-> "PUBLISHED"]}

\* The query parameter of a search request.
QueryPool ==
    {Null, <<>>, TextBlank, TextLowerAb, <<" ", "A", "B", "\t">>, NullText}

\* The page and size parameters of a request, valid ones and not.
PageParams == {-1, 0, 1}
SizeParams == {0, 1, 2}

\* The search requests <<query, page, size>>: one query with every page and
\* size, and every query with the first page of size 1.
SearchRequests ==
    {<<TextLowerAb, p, s>> : p \in PageParams, s \in SizeParams}
        \cup {<<q, 0, 1>> : q \in QueryPool}

\* ------------------------------------------------------- PostController
\* @PageableDefault(size = 10)
DefaultPageSize == 10

\* The Pageable the controller method receives for the request parameters
\* page and size: the argument resolver replaces a negative page by 0 and a
\* size below 1 by the default size, and builds a PageRequest.
resolvePageable(page, size) ==
    [pageNumber |-> IF page < 0 THEN 0 ELSE page,
     pageSize |-> IF size < 1 THEN DefaultPageSize ELSE size]

\* Pageable.getOffset
getOffset(pageable) == pageable.pageNumber * pageable.pageSize

\* ----------------------------------------------------------------- state
VARIABLES
    searchIndex,   \* SearchService.searchIndex: id -> SearchIndex entry
    posts,         \* the posts table behind PostRepository: id -> Post
    nextId,        \* the next value of the posts IDENTITY column
    searchCache,   \* the cache "search" of @Cacheable on searchPosts
    last,          \* the last completed call and its outcome
    calls,         \* the number of calls completed
    relevance,     \* a call of calculateRelevance: its arguments and result
    scan,          \* a performSearch in progress: its place in the index and its reads
    postCache,     \* the cache "post" of @Cacheable on getPost: id -> PostResponse
    postsCache,    \* the cache "posts" of @Cacheable on getPosts: key -> Page
    blogPosts,     \* the Post collection behind routes/posts.js: id -> post
    comments,      \* the Comment collection: id -> comment
    contacts,      \* the Contact collection: id -> contact
    now,           \* the clock LocalDateTime.now() and new Date() read
    inflight       \* the requests between two of their steps: thread -> locals

\* The state of the Node routes, the clock and the requests in flight.
siteVars == <<blogPosts, comments, contacts, now, inflight>>

vars == <<searchIndex, posts, nextId, searchCache, last, calls, relevance, scan,
          postCache, postsCache, siteVars>>

\* ------------------------------------------------------------- outcomes
\* A date that is not set (null publishedAt, repliedAt).
NoTime == 0

NoPage == [content |-> <<>>, number |-> -1, size |-> -1, totalElements |-> -1]

Returned(page) == [status |-> "ok", error |-> "", page |-> page]
Thrown(error) == [status |-> "error", error |-> error, page |-> NoPage]

\* new IllegalArgumentException("검색 쿼리가 비어있습니다") of searchPosts
EmptyQueryError == "IllegalArgumentException: empty search query"
\* List.subList with fromIndex > toIndex
SubListRangeError == "IllegalArgumentException: fromIndex > toIndex"
\* List.subList with fromIndex < 0
SubListIndexError == "IndexOutOfBoundsException"
\* String.toLowerCase on a null title or content
NullPointerError == "NullPointerException"
\* new RuntimeException("게시글을 찾을 수 없습니다: " + id)
PostNotFoundError == "RuntimeException: post not found"
\* new IllegalArgumentException("제목이 비어있습니다") of generateSlug
EmptyTitleError == "IllegalArgumentException: empty title"
\* The exception of a repository call or of the commit when the database fails.
BackingStoreError == "DataAccessException"
\* The insert of a row whose slug another row has (Post.slug is unique).
UniqueSlugError == "DataIntegrityViolationException: duplicate slug"

NoPost == [id |-> 0, title |-> Null, content |-> Null, excerpt |-> Null,
           tags |-> <<>>]
NoRequest == [title |-> Null, excerpt |-> Null, content |-> Null, status |-> "DRAFT"]

\* The record of a call: the operation, its arguments and its outcome;
\* fromCache tells a search the cache answered, again an indexPost that
\* repeats the call before it with the same Post.
Call(op, id, post, request, query, page, size, outcome) ==
    [op |-> op, id |-> id, post |-> post, request |-> request,
     query |-> query, page |-> page, size |-> size, outcome |-> outcome,
     fromCache |-> FALSE, again |-> FALSE]

NoCall == Call("none", 0, NoPost, NoRequest, <<>>, 0, 0, Returned(NoPage))

\* ------------------------------------------------- SearchService, stateful
\* The key of @Cacheable: #query + '_' + #pageable.pageNumber + '_' +
\* #pageable.pageSize.  The concatenation renders a null query as "null".
cacheKey(query, pageable) ==
    (IF query = Null THEN NullText ELSE query)
        \o <<"_">> \o decimalText(pageable.pageNumber)
        \o <<"_">> \o decimalText(pageable.pageSize)

\* SearchService.convertToPostResponse, for a post found in the repository.
convertToPostResponse(result, post) ==
    [id |-> post.id,
     title |-> post.title,
     slug |-> post.slug,
     excerpt |-> post.excerpt,
     content |-> post.content,
     status |-> post.status,
     highlightedTitle |-> result.highlightedTitle,
     highlightedContent |-> result.highlightedContent,
     searchScore |-> result.score]

Min(a, b) == IF a < b THEN a ELSE b

\* The body of SearchService.searchPosts on the index map and the posts
\* table store: the outcome of one call that is not answered by the cache.
searchPostsBody(map, store, query, pageable) ==
    IF isBlankQuery(query) THEN Thrown(EmptyQueryError)
    ELSE IF performSearchThrows(map) THEN Thrown(NullPointerError)
    ELSE
      LET results == performSearch(map, normalizeQuery(query))
          start == getOffset(pageable)
          end == Min(start + pageable.pageSize, Len(results))
      IN IF start < 0 THEN Thrown(SubListIndexError)
         ELSE IF start > end THEN Thrown(SubListRangeError)
         ELSE
           LET pagedResults == SubSeq(results, start + 1, end)
           IN IF \E i \in 1..Len(pagedResults) : pagedResults[i].id \notin DOMAIN store
              THEN Thrown(PostNotFoundError)
              ELSE Returned(
                     [content |-> [i \in 1..Len(pagedResults) |->
                                     convertToPostResponse(pagedResults[i],
                                                           store[pagedResults[i].id])],
                      number |-> pageable.pageNumber,
                      size |-> pageable.pageSize,
                      totalElements |-> Len(results)])

\* SearchService.searchPosts as its callers reach it, through the caching
\* proxy: a key found in the cache is answered from the cache and the method
\* body is not run.
searchPosts(map, store, cache, query, pageable) ==
    IF cacheKey(query, pageable) \in DOMAIN cache
    THEN Returned(cache[cacheKey(query, pageable)])
    ELSE searchPostsBody(map, store, query, pageable)

\* The cache after the call: a value returned by the method body is stored
\* under the key; an exception stores nothing.
cacheAfter(cache, query, pageable, outcome) ==
    IF outcome.status = "ok"
    THEN [k \in DOMAIN cache \cup {cacheKey(query, pageable)} |->
            IF k = cacheKey(query, pageable) THEN outcome.page ELSE cache[k]]
    ELSE cache

\* The SearchIndex entry indexPost builds from a Post.
indexEntry(post) ==
    [id |-> post.id, title |-> post.title, content |-> post.content,
     excerpt |-> post.excerpt, tags |-> post.tags]

\* A put that merges field by field: a Post without excerpt keeps the
\* excerpt of the entry it replaces.
indexPostMerging(map, post) ==
    [k \in DOMAIN map \cup {post.id} |->
        IF k # post.id THEN map[k]
        ELSE IF post.id \in DOMAIN map /\ post.excerpt = Null
             THEN [indexEntry(post) EXCEPT !.excerpt = map[post.id].excerpt]
             ELSE indexEntry(post)]

\* A put that adds the tags of the Post to those of the entry it replaces.
indexPostAddingTags(map, post) ==
    [k \in DOMAIN map \cup {post.id} |->
        IF k # post.id THEN map[k]
        ELSE IF post.id \in DOMAIN map
             THEN [indexEntry(post) EXCEPT !.tags = map[post.id].tags \o post.tags]
             ELSE indexEntry(post)]

\* A put that keeps the entry a key already has (putIfAbsent).
indexPostIfAbsent(map, post) ==
    [k \in DOMAIN map \cup {post.id} |->
        IF k \in DOMAIN map THEN map[k] ELSE indexEntry(post)]

\* A put into a map that holds one entry only: the others are dropped.
indexPostEvicting(map, post) == [k \in {post.id} |-> indexEntry(post)]

\* searchIndex.put(post.getId(), index)
indexPost(map, post) ==
    [k \in DOMAIN map \cup {post.id} |->
        IF k = post.id THEN indexEntry(post) ELSE map[k]]

\* A removal that, for a key the map does not hold, drops the lowest key.
removePostFromIndexOrLowest(map, postId) ==
    IF postId \in DOMAIN map \/ DOMAIN map = {}
    THEN [k \in DOMAIN map \ {postId} |-> map[k]]
    ELSE LET low == CHOOSE x \in DOMAIN map : \A y \in DOMAIN map : x <= y
         IN [k \in DOMAIN map \ {low} |-> map[k]]

\* searchIndex.remove(postId)
removePostFromIndex(map, postId) == [k \in DOMAIN map \ {postId} |-> map[k]]

\* ------------------------------------------------------------ PostService
\* The characters replaceAll("[^a-z0-9\\s-]", "") keeps.
SlugChars == {"a", "b", "l", "n", "u", "-"} \cup Whitespace
                \cup {DigitChars[i] : i \in 1..10}

\* replaceAll("\\s+", "-") and replaceAll("-+", "-") on the kept characters:
\* every whitespace becomes "-" and every run of "-" one "-".
RECURSIVE collapseDashes(_)
collapseDashes(s) ==
    IF s = <<>> THEN <<>>
    ELSE IF Len(s) >= 2 /\ s[1] = "-" /\ s[2] = "-"
         THEN collapseDashes(Tail(s))
         ELSE <<Head(s)>> \o collapseDashes(Tail(s))

\* The slug generateSlug derives from a title before the duplicate check.
slugOf(title) ==
    LET kept == SelectSeq(toLowerCase(title), LAMBDA c : c \in SlugChars)
        dashed == [i \in 1..Len(kept) |->
                     IF kept[i] \in Whitespace THEN "-" ELSE kept[i]]
    IN trim(collapseDashes(dashed))

\* postRepository.existsBySlug
existsBySlug(store, slug) == \E k \in DOMAIN store : store[k].slug = slug

\* The duplicate loop of generateSlug: originalSlug + "-" + counter.
RECURSIVE uniqueSlug(_, _, _)
uniqueSlug(store, originalSlug, counter) ==
    LET slug == originalSlug \o <<"-">> \o decimalText(counter)
    IN IF existsBySlug(store, slug)
       THEN uniqueSlug(store, originalSlug, counter + 1)
       ELSE slug

\* title == null || title.trim().isEmpty(), on which generateSlug throws.
isBlankTitle(title) == title = Null \/ trim(title) = <<>>

\* PostService.generateSlug, for a title that is not blank.
generateSlug(store, title) ==
    IF existsBySlug(store, slugOf(title))
    THEN uniqueSlug(store, slugOf(title), 1)
    ELSE slugOf(title)

\* postRepository.save
savePost(store, post) ==
    [k \in DOMAIN store \cup {post.id} |-> IF k = post.id THEN post ELSE store[k]]

\* postRepository.delete
deleteFromStore(store, id) == [k \in DOMAIN store \ {id} |-> store[k]]

\* PostService.convertToResponse: the fields of the PostResponse the model
\* keeps.
convertToResponse(post) ==
    [id |-> post.id, title |-> post.title, slug |-> post.slug,
     excerpt |-> post.excerpt, content |-> post.content,
     status |-> post.status, viewCount |-> post.viewCount]

\* Post.incrementViewCount and postRepository.save in
\* PostService.incrementViewCount.
incrementViewCount(store, id) ==
    [store EXCEPT ![id] = [@ EXCEPT !.viewCount = @ + 1]]

\* cacheService.evictCache("post", key): the entry of the key leaves the cache.
evictCache(cache, key) == [k \in DOMAIN cache \ {key} |-> cache[k]]

\* The cache "post" after the caching proxy stored the value getPost returned.
putPostCache(cache, id, response) ==
    [k \in DOMAIN cache \cup {id} |-> IF k = id THEN response ELSE cache[k]]

\* ---------------------------------------------------------------- actions
EmptyMap == [k \in {} |-> NoPost]

NoResult ==
    [id |-> 0, title |-> Null, content |-> Null, excerpt |-> Null,
     highlightedTitle |-> Null, highlightedContent |-> Null, score |-> -1]

NoRelevance == [index |-> NoPost, query |-> <<>>, done |-> FALSE, result |-> NoResult]

\* No performSearch is running.
NoScan == [active |-> FALSE, query |-> <<>>, cursor |-> 0, read |-> <<>>]

Init ==
    /\ searchIndex = EmptyMap
    /\ posts = EmptyMap
    /\ nextId = 1
    /\ searchCache = EmptyMap
    /\ last = NoCall
    /\ calls = 0
    /\ relevance = NoRelevance
    /\ scan = NoScan
    /\ postCache = EmptyMap
    /\ postsCache = EmptyMap
    /\ blogPosts = EmptyMap
    /\ comments = EmptyMap
    /\ contacts = EmptyMap
    /\ now = 1
    /\ inflight = EmptyMap

\* GET /posts/search: PostController.searchPosts, PostService.searchPosts,
\* SearchService.searchPosts behind its cache.
SearchPosts(query, page, size) ==
    LET pageable == resolvePageable(page, size)
        outcome == searchPosts(searchIndex, posts, searchCache, query, pageable)
        cache == cacheAfter(searchCache, query, pageable, outcome)
    IN /\ searchCache' = cache
       /\ last' = [Call("searchPosts", 0, NoPost, NoRequest, query, page, size, outcome)
                      EXCEPT !.fromCache = cacheKey(query, pageable) \in DOMAIN searchCache]
       /\ UNCHANGED <<searchIndex, posts, nextId, relevance, scan, postCache, postsCache, siteVars>>

\* SearchService.indexPost called with a Post object.
IndexPost(post) ==
    /\ searchIndex' = indexPost(searchIndex, post)
    /\ last' = [Call("indexPost", post.id, post, NoRequest, <<>>, 0, 0, Returned(NoPage))
                   EXCEPT !.again = (last.op = "indexPost" /\ last.post = post)]
    /\ UNCHANGED <<posts, nextId, searchCache, relevance, scan, postCache, postsCache, siteVars>>

\* SearchService.removePostFromIndex
RemovePostFromIndex(postId) ==
    /\ searchIndex' = removePostFromIndex(searchIndex, postId)
    /\ last' = Call("removePostFromIndex", postId, NoPost, NoRequest, <<>>, 0, 0,
                    Returned(NoPage))
    /\ UNCHANGED <<posts, nextId, searchCache, relevance, scan, postCache, postsCache, siteVars>>

\* PostService.createPost: a blank title throws in generateSlug before
\* anything is saved; otherwise the post is saved under a new id, with the
\* empty tag list and the view count 0 of Post.builder(), and indexed.  With
\* storeFails the database fails after the index call: the transaction is
\* rolled back, so the insert is undone (the id stays used), and the
\* exception leaves the caches as they are.  A call that returns evicts
\* every entry of the cache "post".
CreatePost(request, storeFails) ==
    /\ nextId <= MaxId
    /\ IF isBlankTitle(request.title)
       THEN /\ last' = Call("createPost", 0, NoPost, request, <<>>, 0, 0,
                            Thrown(EmptyTitleError))
            /\ UNCHANGED <<searchIndex, posts, nextId, searchCache, relevance, scan, postCache, postsCache, siteVars>>
       ELSE LET savedPost ==
                  [id |-> nextId,
                   title |-> request.title,
                   slug |-> generateSlug(posts, request.title),
                   excerpt |-> request.excerpt,
                   content |-> request.content,
                   tags |-> <<>>,
                   status |-> request.status,
                   viewCount |-> 0,
                   publishedAt |-> NoTime]
            IN /\ nextId' = nextId + 1
               /\ searchIndex' = indexPost(searchIndex, savedPost)
               /\ IF storeFails
                  THEN /\ last' = Call("createPost", savedPost.id, NoPost, request,
                                       <<>>, 0, 0, Thrown(BackingStoreError))
                       /\ UNCHANGED <<posts, postCache, postsCache>>
                  ELSE /\ posts' = savePost(posts, savedPost)
                       /\ postCache' = EmptyMap
                       /\ postsCache' = EmptyMap
                       /\ last' = Call("createPost", savedPost.id, NoPost, request,
                                       <<>>, 0, 0, Returned(NoPage))
               /\ UNCHANGED <<searchCache, relevance, scan, siteVars>>

\* PostService.updatePost: an unknown id and a blank title throw and change
\* nothing; otherwise title, slug, excerpt and content are replaced, the post
\* is saved and re-indexed.  With storeFails the database fails after the
\* index call and the transaction is rolled back.
UpdatePost(id, request, storeFails) ==
    IF id \notin DOMAIN posts
    THEN /\ last' = Call("updatePost", id, NoPost, request, <<>>, 0, 0,
                         Thrown(PostNotFoundError))
         /\ UNCHANGED <<searchIndex, posts, nextId, searchCache, relevance, scan, postCache, postsCache, siteVars>>
    ELSE IF isBlankTitle(request.title)
    THEN /\ last' = Call("updatePost", id, NoPost, request, <<>>, 0, 0,
                         Thrown(EmptyTitleError))
         /\ UNCHANGED <<searchIndex, posts, nextId, searchCache, relevance, scan, postCache, postsCache, siteVars>>
    ELSE LET updatedPost ==
               [posts[id] EXCEPT !.title = request.title,
                                 !.slug = generateSlug(posts, request.title),
                                 !.excerpt = request.excerpt,
                                 !.content = request.content,
                                 !.status = request.status]
         IN /\ searchIndex' = indexPost(searchIndex, updatedPost)
            /\ IF storeFails
               THEN /\ last' = Call("updatePost", id, NoPost, request, <<>>, 0, 0,
                                    Thrown(BackingStoreError))
                    /\ UNCHANGED <<posts, postCache, postsCache>>
               ELSE /\ posts' = savePost(posts, updatedPost)
                    /\ postCache' = EmptyMap
                    /\ postsCache' = EmptyMap
                    /\ last' = Call("updatePost", id, NoPost, request, <<>>, 0, 0,
                                    Returned(NoPage))
            /\ UNCHANGED <<nextId, searchCache, relevance, scan, siteVars>>

\* PostService.deletePost: an unknown id throws; otherwise the index entry
\* is removed and then the post deleted.  With storeFails
\* postRepository.delete throws after the index call: the post stays.
DeletePost(id, storeFails) ==
    IF id \notin DOMAIN posts
    THEN /\ last' = Call("deletePost", id, NoPost, NoRequest, <<>>, 0, 0,
                         Thrown(PostNotFoundError))
         /\ UNCHANGED <<searchIndex, posts, nextId, searchCache, relevance, scan, postCache, postsCache, siteVars>>
    ELSE /\ searchIndex' = removePostFromIndex(searchIndex, id)
         /\ IF storeFails
            THEN /\ last' = Call("deletePost", id, NoPost, NoRequest, <<>>, 0, 0,
                                 Thrown(BackingStoreError))
                 /\ UNCHANGED <<posts, postCache, postsCache>>
            ELSE /\ posts' = deleteFromStore(posts, id)
                 /\ postCache' = EmptyMap
                 /\ postsCache' = EmptyMap
                 /\ last' = Call("deletePost", id, NoPost, NoRequest, <<>>, 0, 0,
                                 Returned(NoPage))
         /\ UNCHANGED <<nextId, searchCache, relevance, scan, siteVars>>

\* GET /posts/{id}: PostController.getPost, PostService.getPost behind its
\* cache "post".  An id found in the cache is answered from the cache and
\* the method body is not run.  The body throws for an unknown id; otherwise
\* it counts a view (incrementViewCountAsync calls incrementViewCount, which
\* saves the post and evicts the id from the cache) and returns the
\* response, which the proxy then stores under the id.
GetPost(id) ==
    IF id \in DOMAIN postCache
    THEN /\ last' = [Call("getPost", id, NoPost, NoRequest, <<>>, 0, 0, Returned(NoPage))
                        EXCEPT !.fromCache = TRUE]
         /\ UNCHANGED <<searchIndex, posts, nextId, searchCache, relevance, scan, postCache, postsCache, siteVars>>
    ELSE IF id \notin DOMAIN posts
    THEN /\ last' = Call("getPost", id, NoPost, NoRequest, <<>>, 0, 0,
                         Thrown(PostNotFoundError))
         /\ UNCHANGED <<searchIndex, posts, nextId, searchCache, relevance, scan, postCache, postsCache, siteVars>>
    ELSE LET store == incrementViewCount(posts, id)
         IN /\ posts' = store
            /\ postCache' = putPostCache(evictCache(postCache, id), id,
                                         convertToResponse(store[id]))
            /\ last' = Call("getPost", id, NoPost, NoRequest, <<>>, 0, 0,
                            Returned(NoPage))
            /\ UNCHANGED <<searchIndex, nextId, searchCache, relevance, scan, postsCache,
                           siteVars>>

\* POST /posts/{id}/view: PostController.incrementViewCount,
\* PostService.incrementViewCount.  evictCache is given the id as a String
\* while getPost caches under the Long id: whether the entry is found and
\* evicted is up to the cache behind CacheService (evicts).
IncrementViewCount(id, evicts) ==
    IF id \notin DOMAIN posts
    THEN /\ last' = Call("incrementViewCount", id, NoPost, NoRequest, <<>>, 0, 0,
                         Thrown(PostNotFoundError))
         /\ UNCHANGED <<searchIndex, posts, nextId, searchCache, relevance, scan, postCache, postsCache, siteVars>>
    ELSE /\ posts' = incrementViewCount(posts, id)
         /\ postCache' = IF evicts THEN evictCache(postCache, id) ELSE postCache
         /\ last' = Call("incrementViewCount", id, NoPost, NoRequest, <<>>, 0, 0,
                         Returned(NoPage))
         /\ UNCHANGED <<searchIndex, nextId, searchCache, relevance, scan, postsCache,
                        siteVars>>

\* The ids of the PUBLISHED posts of the store above the id low, ascending.
RECURSIVE publishedAbove(_, _)
publishedAbove(store, low) ==
    LET ids == {k \in DOMAIN store : k > low /\ store[k].status = "PUBLISHED"}
    IN IF ids = {} THEN <<>>
       ELSE LET first == CHOOSE k \in ids : \A j \in ids : k <= j
            IN <<first>> \o publishedAbove(store, first)

\* postRepository.findPublishedPostsWithFilters without category and tag,
\* mapped with convertToResponse: the page of the PUBLISHED posts.
findPublishedPostsWithFilters(store, pageable) ==
    LET ids == publishedAbove(store, 0)
        start == Min(getOffset(pageable), Len(ids))
        end == Min(start + pageable.pageSize, Len(ids))
    IN Returned([content |-> [i \in 1..(end - start) |->
                                 convertToResponse(store[ids[start + i]])],
                 number |-> pageable.pageNumber,
                 size |-> pageable.pageSize,
                 totalElements |-> Len(ids)])

\* The key of @Cacheable("posts") for a listing without category, tag and
\* sort: page, size, "null", "null", search, "null", joined by '_'.
postsCacheKey(pageable, search) ==
    decimalText(pageable.pageNumber) \o <<"_">> \o decimalText(pageable.pageSize)
        \o <<"_">> \o NullText \o <<"_">> \o NullText
        \o <<"_">> \o (IF search = Null THEN NullText ELSE search)
        \o <<"_">> \o NullText

\* search != null && !search.trim().isEmpty()
hasSearch(search) == search # Null /\ trim(search) # <<>>

\* The body of PostService.getPosts: a search keyword sends the listing to
\* SearchService.searchPosts, through its caching proxy.
getPostsBody(map, store, cache, pageable, search) ==
    IF hasSearch(search)
    THEN searchPosts(map, store, cache, search, pageable)
    ELSE findPublishedPostsWithFilters(store, pageable)

\* GET /posts: PostService.getPosts behind the cache "posts".
GetPosts(search, page, size) ==
    LET pageable == resolvePageable(page, size)
        key == postsCacheKey(pageable, search)
        outcome == IF key \in DOMAIN postsCache
                   THEN Returned(postsCache[key])
                   ELSE getPostsBody(searchIndex, posts, searchCache, pageable, search)
    IN /\ last' = [Call("getPosts", 0, NoPost, NoRequest, search, page, size, outcome)
                      EXCEPT !.fromCache = key \in DOMAIN postsCache]
       /\ searchCache' = IF key \notin DOMAIN postsCache /\ hasSearch(search)
                         THEN cacheAfter(searchCache, search, pageable, outcome)
                         ELSE searchCache
       /\ postsCache' = IF key \notin DOMAIN postsCache /\ outcome.status = "ok"
                        THEN [k \in DOMAIN postsCache \cup {key} |->
                                IF k = key THEN outcome.page ELSE postsCache[k]]
                        ELSE postsCache
       /\ UNCHANGED <<searchIndex, posts, nextId, relevance, scan, postCache, siteVars>>

\* One more call, while the behaviour has calls left.
CountCall ==
    /\ calls < MaxCalls
    /\ calls' = calls + 1

\* The operations on the search index, with the PostService operations that
\* create and delete the posts a search result is converted from.
Next ==
    \/ \E r \in SearchRequests : CountCall /\ SearchPosts(r[1], r[2], r[3])
    \/ \E id \in Ids, post \in PostPool : CountCall /\ IndexPost(postWithId(id, post))
    \/ \E id \in Ids : CountCall /\ RemovePostFromIndex(id)
    \/ \E request \in RequestPool : CountCall /\ CreatePost(request, FALSE)
    \/ \E id \in Ids : CountCall /\ DeletePost(id, FALSE)

Spec == Init /\ [][Next]_vars

\* The index as PostService alone drives it: posts are created, updated and
\* deleted, and searched.
NextPosts ==
    \/ \E r \in SearchRequests : CountCall /\ SearchPosts(r[1], r[2], r[3])
    \/ \E request \in RequestPool : CountCall /\ CreatePost(request, FALSE)
    \/ \E id \in Ids, request \in RequestPool : CountCall /\ UpdatePost(id, request, FALSE)
    \/ \E id \in Ids : CountCall /\ DeletePost(id, FALSE)

SpecPosts == Init /\ [][NextPosts]_vars

\* The PostService operations on a database that can fail: each call that
\* reaches its index call may find the database failing after it.
NextStoreFailures ==
    \/ \E r \in SearchRequests : CountCall /\ SearchPosts(r[1], r[2], r[3])
    \/ \E request \in RequestPool, storeFails \in BOOLEAN :
          CountCall /\ CreatePost(request, storeFails)
    \/ \E id \in Ids, request \in RequestPool, storeFails \in BOOLEAN :
          CountCall /\ UpdatePost(id, request, storeFails)
    \/ \E id \in Ids, storeFails \in BOOLEAN :
          CountCall /\ DeletePost(id, storeFails)

SpecStoreFailures == Init /\ [][NextStoreFailures]_vars

\* Posts are created, read, viewed, updated and deleted.
NextViews ==
    \/ \E request \in RequestPool : CountCall /\ CreatePost(request, FALSE)
    \/ \E id \in Ids : CountCall /\ GetPost(id)
    \/ \E id \in Ids, evicts \in BOOLEAN : CountCall /\ IncrementViewCount(id, evicts)
    \/ \E id \in Ids, request \in RequestPool : CountCall /\ UpdatePost(id, request, FALSE)
    \/ \E id \in Ids : CountCall /\ DeletePost(id, FALSE)

SpecViews == Init /\ [][NextViews]_vars

\* The search keywords of a listing request: none, and two keywords.
ListingSearches == {Null, TextB, TextLowerAb}

\* Posts are created, updated and deleted, and the public listing is read.
NextListing ==
    \/ \E request \in RequestPool : CountCall /\ CreatePost(request, FALSE)
    \/ \E id \in Ids, request \in RequestPool : CountCall /\ UpdatePost(id, request, FALSE)
    \/ \E id \in Ids : CountCall /\ DeletePost(id, FALSE)
    \/ \E search \in ListingSearches, page \in {0, 1}, size \in {1, 2} :
          CountCall /\ GetPosts(search, page, size)

SpecListing == Init /\ [][NextListing]_vars

\* ------------------------------------------------- calculateRelevance alone
\* The index entries and normalized queries calculateRelevance is applied to.
RelevanceTitles == {TextAb, TextB, <<"a", "A", "B">>, <<"A", ".">>}
RelevanceContents == {TextBAb, TextAB, <<>>}
RelevanceExcerpts == {Null, TextLowerAb}
RelevanceTags ==
    {<<>>, <<TextLowerAb, <<"a", "b", "b">>>>, <<TextB, <<"A", "B">>>>,
     <<<<"a">>, TextB>>}
RelevanceQueries == {TextLowerAb, TextB, TextAB, <<"b", "b">>, <<".">>}

RelevanceEntries ==
    {[id |-> 1, title |-> t, content |-> c, excerpt |-> e, tags |-> g] :
        t \in RelevanceTitles, c \in RelevanceContents,
        e \in RelevanceExcerpts, g \in RelevanceTags}

InitRelevance ==
    /\ searchIndex = EmptyMap
    /\ posts = EmptyMap
    /\ nextId = 1
    /\ searchCache = EmptyMap
    /\ last = NoCall
    /\ calls = 0
    /\ relevance \in {[index |-> e, query |-> q, done |-> FALSE, result |-> NoResult] :
                        e \in RelevanceEntries, q \in RelevanceQueries}
    /\ scan = NoScan
    /\ postCache = EmptyMap
    /\ postsCache = EmptyMap
    /\ blogPosts = EmptyMap
    /\ comments = EmptyMap
    /\ contacts = EmptyMap
    /\ now = 1
    /\ inflight = EmptyMap

\* SearchService.calculateRelevance applied to the entry and the query.
CalculateRelevance ==
    /\ ~relevance.done
    /\ relevance' = [relevance EXCEPT !.done = TRUE,
                                      !.result = calculateRelevance(relevance.index,
                                                                    relevance.query)]
    /\ UNCHANGED <<searchIndex, posts, nextId, searchCache, last, calls, scan, postCache, postsCache, siteVars>>

NextRelevance == CalculateRelevance

SpecRelevance == InitRelevance /\ [][NextRelevance]_vars

\* ------------------------------------------- a search next to the writers
\* performSearch streams over searchIndex.values() while other threads call
\* indexPost and removePostFromIndex.  The iterator of a ConcurrentHashMap
\* is weakly consistent: it walks the keys upwards and hands out, for each
\* key it comes to, the entry the map holds at that moment.  A put or a
\* remove is one atomic map operation; indexPost builds its SearchIndex
\* object in locals before the put and nothing changes it afterwards.

\* The documents the concurrent writers index.
ConcurrentPosts == {PostFull, PostContent}

\* The keys of the map the iterator has not passed yet.
keysAhead(map, cursor) == {k \in DOMAIN map : k > cursor}

\* performSearch opens the stream over the values of the index.
BeginSearch(query) ==
    /\ ~scan.active
    /\ scan' = [active |-> TRUE, query |-> query, cursor |-> 0, read |-> <<>>]
    /\ UNCHANGED <<searchIndex, posts, nextId, searchCache, last, relevance, postCache, postsCache, siteVars>>

\* The stream takes the next entry of the map and hands it to
\* calculateRelevance.
ReadEntry ==
    /\ scan.active
    /\ keysAhead(searchIndex, scan.cursor) # {}
    /\ LET k == CHOOSE x \in keysAhead(searchIndex, scan.cursor) :
                    \A y \in keysAhead(searchIndex, scan.cursor) : x <= y
       IN scan' = [scan EXCEPT !.cursor = k,
                               !.read = Append(scan.read, searchIndex[k])]
    /\ UNCHANGED <<searchIndex, posts, nextId, searchCache, last, calls, relevance,
                   postCache, postsCache, siteVars>>

\* The iterator has no entry left: the stream ends.
EndSearch ==
    /\ scan.active
    /\ keysAhead(searchIndex, scan.cursor) = {}
    /\ scan' = [scan EXCEPT !.active = FALSE]
    /\ UNCHANGED <<searchIndex, posts, nextId, searchCache, last, calls, relevance,
                   postCache, postsCache, siteVars>>

NextConcurrent ==
    \/ \E id \in Ids, post \in ConcurrentPosts :
          CountCall /\ IndexPost(postWithId(id, post))
    \/ \E id \in Ids : CountCall /\ RemovePostFromIndex(id)
    \/ CountCall /\ BeginSearch(TextLowerAb)
    \/ ReadEntry
    \/ EndSearch

SpecConcurrent == Init /\ [][NextConcurrent]_vars

\* ------------------------------------- PostService, concurrent requests
\* A request that makes more than one database call is in inflight between
\* the calls, with its local variables.

\* The request of thread t is over.
finished(t) == [k \in DOMAIN inflight \ {t} |-> inflight[k]]

\* Thread t is between two steps of a request, with these locals.
awaiting(t, locals) ==
    [k \in DOMAIN inflight \cup {t} |-> IF k = t THEN locals ELSE inflight[k]]

\* PostService.createPost, up to the call of postRepository.save: the slug
\* is generated from the posts stored at this moment.  A blank title throws.
CreatePostGenerateSlug(t, request) ==
    /\ t \notin DOMAIN inflight
    /\ IF isBlankTitle(request.title)
       THEN /\ last' = Call("createPost", 0, NoPost, request, <<>>, 0, 0,
                            Thrown(EmptyTitleError))
            /\ UNCHANGED inflight
       ELSE /\ inflight' = awaiting(t, [op |-> "createPost", request |-> request,
                                        slug |-> generateSlug(posts, request.title)])
            /\ UNCHANGED last
    /\ UNCHANGED <<searchIndex, posts, nextId, searchCache, relevance, scan, postCache,
                   postsCache, blogPosts, comments, contacts, now>>

\* PostService.createPost, from postRepository.save on: the insert takes the
\* next id and fails on the unique constraint of Post.slug when a stored
\* post has the slug; a post that is saved is indexed, and the return
\* evicts the caches "posts" and "post".
CreatePostSave(t) ==
    /\ t \in DOMAIN inflight
    /\ inflight[t].op = "createPost"
    /\ nextId <= MaxId
    /\ nextId' = nextId + 1
    /\ inflight' = finished(t)
    /\ LET request == inflight[t].request
           savedPost ==
               [id |-> nextId,
                title |-> request.title,
                slug |-> inflight[t].slug,
                excerpt |-> request.excerpt,
                content |-> request.content,
                tags |-> <<>>,
                status |-> request.status,
                viewCount |-> 0,
                publishedAt |-> NoTime]
       IN IF existsBySlug(posts, inflight[t].slug)
          THEN /\ last' = Call("createPost", nextId, NoPost, request, <<>>, 0, 0,
                               Thrown(UniqueSlugError))
               /\ UNCHANGED <<searchIndex, posts, postCache, postsCache>>
          ELSE /\ posts' = savePost(posts, savedPost)
               /\ searchIndex' = indexPost(searchIndex, savedPost)
               /\ postCache' = EmptyMap
               /\ postsCache' = EmptyMap
               /\ last' = Call("createPost", nextId, NoPost, request, <<>>, 0, 0,
                               Returned(NoPage))
    /\ UNCHANGED <<searchCache, calls, relevance, scan, blogPosts, comments, contacts, now>>

\* PostService.deletePost, up to the call of postRepository.delete: an
\* unknown id throws; otherwise the entry of the post leaves the index.
DeletePostRemoveFromIndex(t, id) ==
    /\ t \notin DOMAIN inflight
    /\ IF id \notin DOMAIN posts
       THEN /\ last' = Call("deletePost", id, NoPost, NoRequest, <<>>, 0, 0,
                            Thrown(PostNotFoundError))
            /\ UNCHANGED <<searchIndex, inflight>>
       ELSE /\ searchIndex' = removePostFromIndex(searchIndex, id)
            /\ inflight' = awaiting(t, [op |-> "deletePost", id |-> id])
            /\ UNCHANGED last
    /\ UNCHANGED <<posts, nextId, searchCache, relevance, scan, postCache,
                   postsCache, blogPosts, comments, contacts, now>>

\* PostService.deletePost, from postRepository.delete on: the post leaves
\* the store, and the return evicts the caches "posts" and "post".
DeletePostDelete(t) ==
    /\ t \in DOMAIN inflight
    /\ inflight[t].op = "deletePost"
    /\ posts' = deleteFromStore(posts, inflight[t].id)
    /\ postCache' = EmptyMap
    /\ postsCache' = EmptyMap
    /\ inflight' = finished(t)
    /\ last' = Call("deletePost", inflight[t].id, NoPost, NoRequest, <<>>, 0, 0,
                    Returned(NoPage))
    /\ UNCHANGED <<searchIndex, nextId, searchCache, calls, relevance, scan,
                   blogPosts, comments, contacts, now>>

\* Posts are created, updated and searched while posts are being deleted.
NextDeleteRace ==
    \/ \E request \in RequestPool : CountCall /\ CreatePost(request, FALSE)
    \/ \E id \in Ids, request \in RequestPool : CountCall /\ UpdatePost(id, request, FALSE)
    \/ \E t \in Threads, id \in Ids : CountCall /\ DeletePostRemoveFromIndex(t, id)
    \/ \E t \in Threads : DeletePostDelete(t)
    \/ \E query \in {TextB, TextLowerAb} : CountCall /\ SearchPosts(query, 0, 2)

SpecDeleteRace == Init /\ [][NextDeleteRace]_vars

\* Posts are created by concurrent requests, and updated and deleted.
NextSlugRace ==
    \/ \E t \in Threads, request \in RequestPool :
          CountCall /\ CreatePostGenerateSlug(t, request)
    \/ \E t \in Threads : CreatePostSave(t)
    \/ \E id \in Ids, request \in RequestPool : CountCall /\ UpdatePost(id, request, FALSE)
    \/ \E id \in Ids : CountCall /\ DeletePost(id, FALSE)

SpecSlugRace == Init /\ [][NextSlugRace]_vars

\* ------------------------------------------------ routes/posts.js (Node)
\* The posts and comments of the Express routes live in two collections.
\* A post keeps status, publishedAt, views and the ids of its comments; a
\* comment keeps its post, its parentComment, its replies and its status.
\* A request that awaits more than one database call is in inflight between
\* the calls, so that the calls of other requests can come in between.

\* new Comment({content, author, post, parentComment}) and comment.save():
\* replies is empty and status is the schema default 'pending'.
saveComment(store, id, postId, parentComment) ==
    [k \in DOMAIN store \cup {id} |->
        IF k = id
        THEN [post |-> postId, parentComment |-> parentComment,
              replies |-> <<>>, status |-> "pending"]
        ELSE store[k]]

\* Post.findByIdAndUpdate(id, {$push: {comments: comment._id}}): a post
\* that is not found is not an error.
pushComment(store, postId, commentId) ==
    IF postId \in DOMAIN store
    THEN [store EXCEPT ![postId] =
            [@ EXCEPT !.comments = Append(@, commentId)]]
    ELSE store

\* Comment.deleteMany({post: id})
deleteManyComments(store, postId) ==
    [k \in {c \in DOMAIN store : store[c].post # postId} |-> store[k]]

\* Post.findByIdAndDelete(id)
findByIdAndDelete(store, id) == [k \in DOMAIN store \ {id} |-> store[k]]

\* GET /:id/comments: the approved top-level comments of the post, each
\* with the comments its replies array names.
getComments(store, postId) ==
    {[id |-> c,
      replies |-> {store[c].replies[i] : i \in 1..Len(store[c].replies)}
                    \cap DOMAIN store] :
        c \in {k \in DOMAIN store :
                 /\ store[k].post = postId
                 /\ store[k].status = "approved"
                 /\ store[k].parentComment = NoId}}

\* The ids a request can name: those handed out so far, and an unknown one.
KnownIds == {k \in 1..MaxObjects : k < now} \cup {UnknownId}

\* POST / (posts): a post is stored with the status of the body; publishedAt
\* is set to the current date when the status is 'published'.
CreateBlogPost(status) ==
    /\ now <= MaxObjects
    /\ blogPosts' = [k \in DOMAIN blogPosts \cup {now} |->
                       IF k = now
                       THEN [status |-> status,
                             publishedAt |-> IF status = "published" THEN now ELSE NoTime,
                             views |-> 0,
                             comments |-> <<>>]
                       ELSE blogPosts[k]]
    /\ now' = now + 1
    /\ last' = Call("createBlogPost", now, NoPost, NoRequest, <<>>, 0, 0, Returned(NoPage))
    /\ UNCHANGED <<searchIndex, posts, nextId, searchCache, relevance, scan, postCache,
                   postsCache, comments, contacts, inflight>>

\* POST /:id/comments, up to the first await: the comment is saved.
AddCommentSave(t, postId, parentComment) ==
    /\ t \notin DOMAIN inflight
    /\ now <= MaxObjects
    /\ comments' = saveComment(comments, now, postId, parentComment)
    /\ now' = now + 1
    /\ inflight' = awaiting(t, [op |-> "addComment", postId |-> postId,
                                commentId |-> now, parentComment |-> parentComment])
    /\ UNCHANGED <<searchIndex, posts, nextId, searchCache, last, relevance, scan,
                   postCache, postsCache, blogPosts, contacts>>

\* POST /:id/comments, the rest: the comment id is pushed to the post and
\* the response 201 is sent.
AddCommentPush(t) ==
    /\ t \in DOMAIN inflight
    /\ inflight[t].op = "addComment"
    /\ blogPosts' = pushComment(blogPosts, inflight[t].postId, inflight[t].commentId)
    /\ inflight' = finished(t)
    /\ last' = Call("addComment", inflight[t].commentId, NoPost, NoRequest, <<>>,
                    inflight[t].postId, inflight[t].parentComment, Returned(NoPage))
    /\ UNCHANGED <<searchIndex, posts, nextId, searchCache, calls, relevance, scan,
                   postCache, postsCache, comments, contacts, now>>

\* DELETE /:id (posts), up to the first await: Post.findById; a post that
\* is not found ends the request with 404.
DeleteBlogPostFind(t, id) ==
    /\ t \notin DOMAIN inflight
    /\ IF id \in DOMAIN blogPosts
       THEN /\ inflight' = awaiting(t, [op |-> "deletePost", postId |-> id,
                                        commentId |-> NoId, parentComment |-> NoId])
            /\ UNCHANGED last
       ELSE /\ last' = Call("deleteBlogPost", id, NoPost, NoRequest, <<>>, 0, 0,
                            Thrown(PostNotFoundError))
            /\ UNCHANGED inflight
    /\ UNCHANGED <<searchIndex, posts, nextId, searchCache, relevance, scan, postCache,
                   postsCache, blogPosts, comments, contacts, now>>

\* DELETE /:id (posts), second step: the comments of the post are deleted.
DeleteBlogPostComments(t) ==
    /\ t \in DOMAIN inflight
    /\ inflight[t].op = "deletePost"
    /\ comments' = deleteManyComments(comments, inflight[t].postId)
    /\ inflight' = awaiting(t, [inflight[t] EXCEPT !.op = "deletePostDocument"])
    /\ UNCHANGED <<searchIndex, posts, nextId, searchCache, last, calls, relevance, scan,
                   postCache, postsCache, blogPosts, contacts, now>>

\* DELETE /:id (posts), last step: the post is deleted and the response sent.
DeleteBlogPostDocument(t) ==
    /\ t \in DOMAIN inflight
    /\ inflight[t].op = "deletePostDocument"
    /\ blogPosts' = findByIdAndDelete(blogPosts, inflight[t].postId)
    /\ inflight' = finished(t)
    /\ last' = Call("deleteBlogPost", inflight[t].postId, NoPost, NoRequest, <<>>, 0, 0,
                    Returned(NoPage))
    /\ UNCHANGED <<searchIndex, posts, nextId, searchCache, calls, relevance, scan,
                   postCache, postsCache, comments, contacts, now>>

\* GET /slug/:slug, up to the first await: Post.findOne of a published
\* post; the document the handler holds has the views it read.
GetBlogPostFind(t, id) ==
    /\ t \notin DOMAIN inflight
    /\ IF id \in DOMAIN blogPosts /\ blogPosts[id].status = "published"
       THEN /\ inflight' = awaiting(t, [op |-> "getBlogPost", postId |-> id,
                                        commentId |-> NoId, parentComment |-> NoId,
                                        views |-> blogPosts[id].views])
            /\ UNCHANGED last
       ELSE /\ last' = Call("getBlogPost", id, NoPost, NoRequest, <<>>, 0, 0,
                            Thrown(PostNotFoundError))
            /\ UNCHANGED inflight
    /\ UNCHANGED <<searchIndex, posts, nextId, searchCache, relevance, scan, postCache,
                   postsCache, blogPosts, comments, contacts, now>>

\* GET /slug/:slug, the rest: post.views += 1 on the document read, and
\* post.save(), which writes the new value of views.
GetBlogPostSave(t) ==
    /\ t \in DOMAIN inflight
    /\ inflight[t].op = "getBlogPost"
    /\ blogPosts' = IF inflight[t].postId \in DOMAIN blogPosts
                    THEN [blogPosts EXCEPT ![inflight[t].postId] =
                            [@ EXCEPT !.views = inflight[t].views + 1]]
                    ELSE blogPosts
    /\ inflight' = finished(t)
    /\ last' = Call("getBlogPost", inflight[t].postId, NoPost, NoRequest, <<>>, 0, 0,
                    Returned(NoPage))
    /\ UNCHANGED <<searchIndex, posts, nextId, searchCache, calls, relevance, scan,
                   postCache, postsCache, comments, contacts, now>>

\* PostService.incrementViewCount, first half: postRepository.findById loads
\* the Post with the view count of this moment; an unknown id throws.
IncrementViewCountFind(t, id) ==
    /\ t \notin DOMAIN inflight
    /\ IF id \in DOMAIN posts
       THEN /\ inflight' = awaiting(t, [op |-> "incrementViewCount", postId |-> id,
                                        commentId |-> NoId, parentComment |-> NoId,
                                        views |-> posts[id].viewCount])
            /\ UNCHANGED last
       ELSE /\ last' = Call("incrementViewCount", id, NoPost, NoRequest, <<>>, 0, 0,
                            Thrown(PostNotFoundError))
            /\ UNCHANGED inflight
    /\ UNCHANGED <<searchIndex, posts, nextId, searchCache, relevance, scan, postCache,
                   postsCache, blogPosts, comments, contacts, now>>

\* PostService.incrementViewCount, second half: post.incrementViewCount() on
\* the loaded Post, postRepository.save(post), which writes the view count of
\* the loaded Post, and the eviction of the post from the cache "post".
IncrementViewCountSave(t) ==
    /\ t \in DOMAIN inflight
    /\ inflight[t].op = "incrementViewCount"
    /\ posts' = IF inflight[t].postId \in DOMAIN posts
                THEN [posts EXCEPT ![inflight[t].postId] =
                        [@ EXCEPT !.viewCount = inflight[t].views + 1]]
                ELSE posts
    /\ postCache' = evictCache(postCache, inflight[t].postId)
    /\ inflight' = finished(t)
    /\ last' = Call("incrementViewCount", inflight[t].postId, NoPost, NoRequest, <<>>,
                    0, 0, Returned(NoPage))
    /\ UNCHANGED <<searchIndex, nextId, searchCache, calls, relevance, scan,
                   postsCache, blogPosts, comments, contacts, now>>

\* Posts of both applications are created and viewed by concurrent requests.
NextViewRace ==
    \/ \E request \in RequestPool : CountCall /\ CreatePost(request, FALSE)
    \/ \E t \in Threads, id \in Ids : CountCall /\ IncrementViewCountFind(t, id)
    \/ \E t \in Threads : IncrementViewCountSave(t)
    \/ CountCall /\ CreateBlogPost("published")
    \/ \E t \in Threads, id \in KnownIds : CountCall /\ GetBlogPostFind(t, id)
    \/ \E t \in Threads : GetBlogPostSave(t)

SpecViewRace == Init /\ [][NextViewRace]_vars

\* PUT /:id (posts) with a body that holds a status and no publishedAt: a
\* post that is not found answers 404; a body that publishes a post whose
\* status is not 'published' gets the current date as publishedAt; the
\* fields of the body are written by findByIdAndUpdate.
UpdateBlogPost(id, status) ==
    /\ now <= MaxObjects
    /\ now' = now + 1
    /\ IF id \notin DOMAIN blogPosts
       THEN /\ last' = Call("updateBlogPost", id, NoPost, NoRequest, <<>>, 0, 0,
                            Thrown(PostNotFoundError))
            /\ UNCHANGED blogPosts
       ELSE /\ blogPosts' =
                 [blogPosts EXCEPT ![id] =
                    [@ EXCEPT !.status = status,
                              !.publishedAt =
                                  IF status = "published" /\ blogPosts[id].status # "published"
                                  THEN now ELSE @]]
            /\ last' = Call("updateBlogPost", id, NoPost, NoRequest, <<>>, 0, 0,
                            Returned(NoPage))
    /\ UNCHANGED <<searchIndex, posts, nextId, searchCache, relevance, scan, postCache,
                   postsCache, comments, contacts, inflight>>

\* Post.publish on a stored post: the status becomes PUBLISHED and
\* publishedAt the current time if it is null.
Publish(id) ==
    /\ id \in DOMAIN posts
    /\ now <= MaxObjects
    /\ now' = now + 1
    /\ posts' = [posts EXCEPT ![id] =
                   [@ EXCEPT !.status = "PUBLISHED",
                             !.publishedAt = IF @ = NoTime THEN now ELSE @]]
    /\ last' = Call("publish", id, NoPost, NoRequest, <<>>, 0, 0, Returned(NoPage))
    /\ UNCHANGED <<searchIndex, nextId, searchCache, relevance, scan, postCache,
                   postsCache, blogPosts, comments, contacts, inflight>>

\* Post.draft on a stored post
Draft(id) ==
    /\ id \in DOMAIN posts
    /\ posts' = [posts EXCEPT ![id] = [@ EXCEPT !.status = "DRAFT"]]
    /\ last' = Call("draft", id, NoPost, NoRequest, <<>>, 0, 0, Returned(NoPage))
    /\ UNCHANGED <<searchIndex, nextId, searchCache, relevance, scan, postCache,
                   postsCache, siteVars>>

\* Post.archive on a stored post
Archive(id) ==
    /\ id \in DOMAIN posts
    /\ posts' = [posts EXCEPT ![id] = [@ EXCEPT !.status = "ARCHIVED"]]
    /\ last' = Call("archive", id, NoPost, NoRequest, <<>>, 0, 0, Returned(NoPage))
    /\ UNCHANGED <<searchIndex, nextId, searchCache, relevance, scan, postCache,
                   postsCache, siteVars>>

\* The values of the status field of a post of the Express application.
BlogStatuses == {"draft", "published", "archived"}

\* Posts of both applications are created, published, drafted, archived and
\* published again.
NextPublish ==
    \/ \E status \in BlogStatuses : CountCall /\ CreateBlogPost(status)
    \/ \E id \in KnownIds, status \in BlogStatuses : CountCall /\ UpdateBlogPost(id, status)
    \/ \E request \in RequestPool : CountCall /\ CreatePost(request, FALSE)
    \/ \E id \in Ids, request \in RequestPool : CountCall /\ UpdatePost(id, request, FALSE)
    \/ \E id \in Ids : CountCall /\ Publish(id)
    \/ \E id \in Ids : CountCall /\ Draft(id)
    \/ \E id \in Ids : CountCall /\ Archive(id)

SpecPublish == Init /\ [][NextPublish]_vars

\* ---------------------------------------------- routes/contact.js (Node)
\* A contact keeps its status, repliedAt and repliedBy.  The admin whose
\* token the requests carry is req.user._id.
AdminId == 1

ContactStatuses == {"new", "read", "replied", "archived"}

\* The locals of a contact request: the document it loaded.
contactLocals(op, id) ==
    [op |-> op, postId |-> id, commentId |-> NoId, parentComment |-> NoId,
     status |-> contacts[id].status]

\* POST / (contact): a contact is stored, with the status 'new' of the
\* schema and no reply; a notification mail that fails is only logged.
SubmitContact ==
    /\ now <= MaxObjects
    /\ contacts' = [k \in DOMAIN contacts \cup {now} |->
                      IF k = now
                      THEN [status |-> "new", repliedAt |-> NoTime, repliedBy |-> NoId]
                      ELSE contacts[k]]
    /\ now' = now + 1
    /\ last' = Call("submitContact", now, NoPost, NoRequest, <<>>, 0, 0, Returned(NoPage))
    /\ UNCHANGED <<searchIndex, posts, nextId, searchCache, relevance, scan, postCache,
                   postsCache, blogPosts, comments, inflight>>

\* GET /:id (contact), up to the first await: Contact.findById; a contact
\* that is not found answers 404.
GetContactFind(t, id) ==
    /\ t \notin DOMAIN inflight
    /\ IF id \in DOMAIN contacts
       THEN /\ inflight' = awaiting(t, contactLocals("getContact", id))
            /\ UNCHANGED last
       ELSE /\ last' = Call("getContact", id, NoPost, NoRequest, <<>>, 0, 0,
                            Thrown(PostNotFoundError))
            /\ UNCHANGED inflight
    /\ UNCHANGED <<searchIndex, posts, nextId, searchCache, relevance, scan, postCache,
                   postsCache, blogPosts, comments, contacts, now>>

\* GET /:id (contact), the rest: a document loaded with the status 'new'
\* is saved with the status 'read'; the document is sent.
GetContactSave(t) ==
    /\ t \in DOMAIN inflight
    /\ inflight[t].op = "getContact"
    /\ contacts' = IF inflight[t].status = "new" /\ inflight[t].postId \in DOMAIN contacts
                   THEN [contacts EXCEPT ![inflight[t].postId] =
                           [@ EXCEPT !.status = "read"]]
                   ELSE contacts
    /\ inflight' = finished(t)
    /\ last' = Call("getContact", inflight[t].postId, NoPost, NoRequest, <<>>, 0, 0,
                    Returned(NoPage))
    /\ UNCHANGED <<searchIndex, posts, nextId, searchCache, calls, relevance, scan,
                   postCache, postsCache, blogPosts, comments, now>>

\* PUT /:id/status with a status in the body: findByIdAndUpdate writes it.
UpdateContactStatus(id, status) ==
    /\ IF id \in DOMAIN contacts
       THEN /\ contacts' = [contacts EXCEPT ![id] = [@ EXCEPT !.status = status]]
            /\ last' = Call("updateContactStatus", id, NoPost, NoRequest, <<>>, 0, 0,
                            Returned(NoPage))
       ELSE /\ last' = Call("updateContactStatus", id, NoPost, NoRequest, <<>>, 0, 0,
                            Thrown(PostNotFoundError))
            /\ UNCHANGED contacts
    /\ UNCHANGED <<searchIndex, posts, nextId, searchCache, relevance, scan, postCache,
                   postsCache, blogPosts, comments, now, inflight>>

\* POST /:id/reply, up to the first await: Contact.findById, 404 if absent.
ReplyFind(t, id) ==
    /\ t \notin DOMAIN inflight
    /\ IF id \in DOMAIN contacts
       THEN /\ inflight' = awaiting(t, contactLocals("reply", id))
            /\ UNCHANGED last
       ELSE /\ last' = Call("reply", id, NoPost, NoRequest, <<>>, 0, 0,
                            Thrown(PostNotFoundError))
            /\ UNCHANGED inflight
    /\ UNCHANGED <<searchIndex, posts, nextId, searchCache, relevance, scan, postCache,
                   postsCache, blogPosts, comments, contacts, now>>

\* POST /:id/reply, the mail: createTransporter and transporter.sendMail;
\* a mail that is not sent throws, and the handler answers 500.
ReplySendMail(t, sent) ==
    /\ t \in DOMAIN inflight
    /\ inflight[t].op = "reply"
    /\ IF sent
       THEN /\ inflight' = awaiting(t, [inflight[t] EXCEPT !.op = "replySent"])
            /\ UNCHANGED last
       ELSE /\ inflight' = finished(t)
            /\ last' = Call("reply", inflight[t].postId, NoPost, NoRequest, <<>>, 0, 0,
                            Thrown(BackingStoreError))
    /\ UNCHANGED <<searchIndex, posts, nextId, searchCache, calls, relevance, scan,
                   postCache, postsCache, blogPosts, comments, contacts, now>>

\* POST /:id/reply, after the mail: status, repliedAt and repliedBy are set
\* on the document and saved.
ReplySave(t) ==
    /\ t \in DOMAIN inflight
    /\ inflight[t].op = "replySent"
    /\ contacts' = IF inflight[t].postId \in DOMAIN contacts
                   THEN [contacts EXCEPT ![inflight[t].postId] =
                           [status |-> "replied", repliedAt |-> now, repliedBy |-> AdminId]]
                   ELSE contacts
    /\ inflight' = finished(t)
    /\ last' = Call("reply", inflight[t].postId, NoPost, NoRequest, <<>>, 0, 0,
                    Returned(NoPage))
    /\ UNCHANGED <<searchIndex, posts, nextId, searchCache, calls, relevance, scan,
                   postCache, postsCache, blogPosts, comments, now>>

\* Contacts are submitted, fetched, replied to and given a status, by
\* concurrent requests.
NextContacts ==
    \/ CountCall /\ SubmitContact
    \/ \E t \in Threads, id \in KnownIds : CountCall /\ GetContactFind(t, id)
    \/ \E t \in Threads : GetContactSave(t)
    \/ \E id \in KnownIds, status \in ContactStatuses :
          CountCall /\ UpdateContactStatus(id, status)
    \/ \E t \in Threads, id \in KnownIds : CountCall /\ ReplyFind(t, id)
    \/ \E t \in Threads, sent \in BOOLEAN : ReplySendMail(t, sent)
    \/ \E t \in Threads : ReplySave(t)

SpecContacts == Init /\ [][NextContacts]_vars

\* Posts are created and deleted and comments added, by concurrent requests.
NextComments ==
    \/ CountCall /\ CreateBlogPost("published")
    \/ \E t \in Threads, id \in KnownIds, parent \in KnownIds \cup {NoId} :
          CountCall /\ AddCommentSave(t, id, parent)
    \/ \E t \in Threads : AddCommentPush(t)
    \/ \E t \in Threads, id \in KnownIds : CountCall /\ DeleteBlogPostFind(t, id)
    \/ \E t \in Threads : DeleteBlogPostComments(t)
    \/ \E t \in Threads : DeleteBlogPostDocument(t)

SpecComments == Init /\ [][NextComments]_vars

\* ================================================================= claims
\* What the claims speak of, read off the state.
LastSearch == last.op = "searchPosts"
LastSearchReturned == LastSearch /\ last.outcome.status = "ok"
LastPage == last.outcome.page
ResultIds(page) == [i \in 1..Len(page.content) |-> page.content[i].id]

\* q occurs in text as a contiguous substring, letter case ignored.
OccursIgnoringCase(text, q) ==
    \E i \in 1..(Len(text) - Len(q) + 1) :
        \A k \in 1..Len(q) : toLowerChar(text[i + k - 1]) = toLowerChar(q[k])

\* The entries of the index that match the query in title, content or a tag.
MatchingIds(map, q) ==
    {k \in DOMAIN map :
        \/ OccursIgnoringCase(map[k].title, q)
        \/ OccursIgnoringCase(map[k].content, q)
        \/ \E t \in 1..Len(map[k].tags) : OccursIgnoringCase(map[k].tags[t], q)}

\* Every index entry has its post in the repository and can be scored.
IndexServable ==
    /\ DOMAIN searchIndex \subseteq DOMAIN posts
    /\ ~performSearchThrows(searchIndex)

\* C1: after removePostFromIndex(id) or deletePost(id) has completed, a
\* search (for any request, also one made before the removal) returns no
\* result with that id, and its totalMatches is one lower than the same
\* search gave before the removal if the removed document matched the query,
\* and the same otherwise.
C1_RemovalIsComplete ==
    [][(/\ last'.op \in {"removePostFromIndex", "deletePost"}
        /\ last'.outcome.status = "ok")
       => \A r \in SearchRequests :
            LET pageable == resolvePageable(r[2], r[3])
                before == searchPosts(searchIndex, posts, searchCache, r[1], pageable)
                after == searchPosts(searchIndex', posts', searchCache', r[1], pageable)
                matched == IF last'.id \in MatchingIds(searchIndex, normalizeQuery(r[1]))
                           THEN 1 ELSE 0
            IN after.status = "ok"
                 => /\ \A i \in 1..Len(after.page.content) :
                          after.page.content[i].id # last'.id
                    /\ before.status = "ok"
                          => after.page.totalElements
                               = before.page.totalElements - matched]_vars

\* C2: the relevance score of an index entry for a normalized query is 3 if
\* the query occurs in the title, plus 1 if it occurs in the content, plus 2
\* if it occurs in at least one tag (once, however many tags match), letter
\* case ignored; the excerpt adds nothing; so the score is one of 0..6.
C2_ScoreIsWeightedSum ==
    relevance.done =>
        /\ relevance.result.score =
              (IF OccursIgnoringCase(relevance.index.title, relevance.query)
               THEN 3 ELSE 0)
            + (IF OccursIgnoringCase(relevance.index.content, relevance.query)
               THEN 1 ELSE 0)
            + (IF \E t \in 1..Len(relevance.index.tags) :
                     OccursIgnoringCase(relevance.index.tags[t], relevance.query)
               THEN 2 ELSE 0)
        /\ relevance.result.score \in 0..6

\* C2 witness: an entry with two matching tags, a matching title and content
\* and a matching excerpt has been scored 6.
C2_Witness ==
    /\ relevance.done
    /\ relevance.result.score = 6
    /\ relevance.index.excerpt = relevance.query
    /\ Cardinality({t \in 1..Len(relevance.index.tags) :
                      OccursIgnoringCase(relevance.index.tags[t], relevance.query)}) = 2

\* C3: the results a search returns are in descending order of score: no
\* returned document comes after one with a strictly lower score.
C3_ResultsSortedByScore ==
    LastSearchReturned =>
        \A i \in 1..Len(LastPage.content), j \in 1..Len(LastPage.content) :
            i < j => LastPage.content[i].searchScore >= LastPage.content[j].searchScore

\* C3 witness: a search returned two documents on one page, the one with the
\* higher id and the higher score first.
C3_Witness ==
    /\ LastSearchReturned
    /\ Len(LastPage.content) = 2
    /\ LastPage.content[1].id > LastPage.content[2].id
    /\ LastPage.content[1].searchScore > LastPage.content[2].searchScore

\* C4: a document whose title, content and tags all lack the normalized
\* query never appears in the results of a search.
C4_NoMatchNeverReturned ==
    LastSearchReturned =>
        \A i \in 1..Len(LastPage.content) :
            LastPage.content[i].id \in DOMAIN searchIndex
                => LastPage.content[i].id
                      \in MatchingIds(searchIndex, normalizeQuery(last.query))

\* C5: the totalMatches of a successful search is the number of indexed
\* documents that match the query, whatever the page and the page size.
C5_TotalIsMatchCount ==
    LastSearchReturned =>
        LastPage.totalElements
            = Cardinality(MatchingIds(searchIndex, normalizeQuery(last.query)))

\* C6: for page >= 0 and pageSize >= 1 a search returns the elements
\* [page*pageSize, min(page*pageSize + pageSize, totalMatches)) of the ordered
\* match list; a page that starts at or beyond totalMatches is an empty
\* result list, not an error.  Stated for a search the method body answered,
\* on an index all of whose entries can be scored and converted.
C6_PageIsClampedSlice ==
    (/\ LastSearch
     /\ ~last.fromCache
     /\ last.page >= 0
     /\ last.size >= 1
     /\ ~isBlankQuery(last.query)
     /\ IndexServable)
    => LET matches == performSearch(searchIndex, normalizeQuery(last.query))
           start == last.page * last.size
           end == Min(start + last.size, Len(matches))
       IN /\ last.outcome.status = "ok"
          /\ ResultIds(LastPage) = [i \in 1..(IF end > start THEN end - start ELSE 0) |->
                                      matches[start + i].id]

\* The concatenation of the result ids of pages 0..n-1 of size s for query q.
RECURSIVE PagesConcatenated(_, _, _)
PagesConcatenated(q, s, n) ==
    IF n = 0 THEN <<>>
    ELSE LET out == searchPosts(searchIndex, posts, searchCache, q,
                                [pageNumber |-> n - 1, pageSize |-> s])
         IN PagesConcatenated(q, s, n - 1)
              \o (IF out.status = "ok" THEN ResultIds(out.page) ELSE <<-1>>)

\* C7: for the index as it stands, a query and a page size s >= 1, the
\* results of pages 0 .. ceil(totalMatches/s)-1 concatenated are the results
\* of the single request for page 0 with page size totalMatches.
C7_PagesConcatenateToWhole ==
    IndexServable =>
        \A s \in 1..MaxId :
            LET q == TextLowerAb
                first == searchPosts(searchIndex, posts, searchCache, q,
                                     [pageNumber |-> 0, pageSize |-> s])
                total == first.page.totalElements
                whole == searchPosts(searchIndex, posts, searchCache, q,
                                     [pageNumber |-> 0, pageSize |-> total])
            IN (first.status = "ok" /\ total >= 1)
                 => /\ whole.status = "ok"
                    /\ PagesConcatenated(q, s, (total + s - 1) \div s)
                          = ResultIds(whole.page)

\* C8: a search whose query is null, empty or only whitespace fails with the
\* empty-query error and returns no results.
C8_BlankQueryFails ==
    (LastSearch /\ isBlankQuery(last.query))
        => last.outcome = Thrown(EmptyQueryError)

\* C9: a search requested with a negative page or a page size below 1 fails
\* instead of returning results.
C9_InvalidPaginationFails ==
    (LastSearch /\ (last.page < 0 \/ last.size < 1))
        => last.outcome.status = "error"

\* C10: indexPost called with a document whose title or content is missing
\* or empty fails and inserts or replaces no index entry.
C10_InvalidDocumentRejected ==
    (/\ last.op = "indexPost"
     /\ \/ last.post.title \in {Null, <<>>}
        \/ last.post.content \in {Null, <<>>})
    => /\ last.outcome.status = "error"
       /\ \/ last.id \notin DOMAIN searchIndex
          \/ searchIndex[last.id] # indexEntry(last.post)

\* C11: removePostFromIndex(id) for an id that has no index entry returns
\* normally and leaves every index entry as it was.
C11_RemoveAbsentIsNoOp ==
    [][(/\ last'.op = "removePostFromIndex"
        /\ last'.id \notin DOMAIN searchIndex)
       => /\ last'.outcome.status = "ok"
          /\ searchIndex' = searchIndex]_vars

\* C11 witness: the second call of a behaviour was a removal of an id the
\* index does not hold, and the entry the first call put is still there (the
\* first call added it, so the removed id had no entry).
C11_Witness ==
    /\ calls = 2
    /\ last.op = "removePostFromIndex"
    /\ last.outcome.status = "ok"
    /\ DOMAIN searchIndex # {}
    /\ last.id \notin DOMAIN searchIndex

\* C12: the index holds at most one entry per id (the entry under a key has
\* that id), and indexPost(d) for an id that is already indexed replaces the
\* whole entry: afterwards title, content, excerpt and tags are those of d.
C12_OneEntryPerIdReplacedWhole ==
    /\ [](\A k \in DOMAIN searchIndex : searchIndex[k].id = k)
    /\ [][last'.op = "indexPost"
            => /\ last'.id \in DOMAIN searchIndex'
               /\ searchIndex'[last'.id] =
                     [id |-> last'.id,
                      title |-> last'.post.title,
                      content |-> last'.post.content,
                      excerpt |-> last'.post.excerpt,
                      tags |-> last'.post.tags]]_vars

\* C12 witness: createPost indexed a post with an excerpt, and the next call
\* indexed another document without excerpt under its id: the entry has
\* the fields of the second document, none of the stored post.
C12_Witness ==
    /\ calls = 2
    /\ last.op = "indexPost"
    /\ last.id \in DOMAIN posts
    /\ posts[last.id].excerpt # Null
    /\ last.post.excerpt = Null
    /\ posts[last.id].title # last.post.title
    /\ posts[last.id].content # last.post.content
    /\ searchIndex[last.id].excerpt = Null
    /\ searchIndex[last.id].title = last.post.title
    /\ searchIndex[last.id].content = last.post.content
    /\ searchIndex[last.id].tags = last.post.tags

\* C13: re-indexing is idempotent: an indexPost(d) that directly follows an
\* indexPost(d) with the same document leaves the index as the first call
\* left it, and with it the outcome (results and totalMatches, or the error)
\* of every search request.
C13_ReindexIsIdempotent ==
    [][(/\ last.op = "indexPost"
        /\ last'.op = "indexPost"
        /\ last'.post = last.post)
       => /\ searchIndex' = searchIndex
          /\ searchCache' = searchCache
          /\ posts' = posts
          /\ \A r \in SearchRequests :
                LET pageable == resolvePageable(r[2], r[3])
                IN searchPosts(searchIndex', posts', searchCache', r[1], pageable)
                     = searchPosts(searchIndex, posts, searchCache, r[1], pageable)]_vars

\* C13 witness: the same document, with tags and a match for the query
\* "ab", was indexed twice in a row under the id of a stored post, on an
\* index every search can serve.
C13_Witness ==
    /\ last.op = "indexPost"
    /\ last.again
    /\ last.post.tags # <<>>
    /\ last.id \in DOMAIN posts
    /\ IndexServable
    /\ relevanceScore(searchIndex[last.id], TextLowerAb) > 0

\* The text with every occurrence of q, letter case ignored, put between the
\* markers, from position i on: occurrences are taken from the left and the
\* characters keep their case.
RECURSIVE MarkOccurrences(_, _, _)
MarkOccurrences(text, q, i) ==
    IF i > Len(text) THEN <<>>
    ELSE IF /\ i + Len(q) - 1 <= Len(text)
            /\ \A k \in 1..Len(q) : toLowerChar(text[i + k - 1]) = toLowerChar(q[k])
         THEN <<MarkOpen>> \o SubSeq(text, i, i + Len(q) - 1) \o <<MarkClose>>
                \o MarkOccurrences(text, q, i + Len(q))
         ELSE <<text[i]>> \o MarkOccurrences(text, q, i + 1)

\* The highlighted text with its markers taken out.
StripMarks(h) == SelectSeq(h, LAMBDA c : c \notin {MarkOpen, MarkClose})

\* C14: highlightedTitle and highlightedContent of a result wrap every
\* occurrence of the normalized query, letter case ignored, in the marker
\* and change nothing else: without the markers they are the title and the
\* content, and a field without the query is returned as it is.
C14_HighlightMarksOccurrences ==
    relevance.done =>
        /\ relevance.result.highlightedTitle
              = MarkOccurrences(relevance.index.title, relevance.query, 1)
        /\ relevance.result.highlightedContent
              = MarkOccurrences(relevance.index.content, relevance.query, 1)
        /\ StripMarks(relevance.result.highlightedTitle) = relevance.index.title
        /\ StripMarks(relevance.result.highlightedContent) = relevance.index.content
        /\ ~OccursIgnoringCase(relevance.index.title, relevance.query)
              => relevance.result.highlightedTitle = relevance.index.title
        /\ ~OccursIgnoringCase(relevance.index.content, relevance.query)
              => relevance.result.highlightedContent = relevance.index.content

\* Queries to normalize: those of the search requests and one with an
\* internal run of whitespace.
NormalizationInputs == (QueryPool \ {Null}) \cup {<<"A", " ", "\t", "B", " ">>}

\* s is trimmed, has single spaces only for whitespace, and no upper case.
IsNormalForm(s) ==
    /\ s = <<>> \/ (s[1] \notin Whitespace /\ s[Len(s)] \notin Whitespace)
    /\ \A i \in 1..Len(s) : s[i] # "\t" /\ toLowerChar(s[i]) = s[i]
    /\ \A i \in 1..(Len(s) - 1) : ~(s[i] = " " /\ s[i + 1] = " ")

\* C15: the query is normalized by trimming, collapsing each whitespace run
\* to one space and lowercasing, and two queries with the same normalized
\* form have the same outcome (results and totalMatches) when searched on
\* the same index contents.
C15_OutcomeDependsOnNormalizedQuery ==
    /\ \A q \in NormalizationInputs :
          /\ IsNormalForm(normalizeQuery(q))
          /\ SelectSeq(normalizeQuery(q), LAMBDA c : c # " ")
                = toLowerCase(SelectSeq(q, LAMBDA c : c \notin Whitespace))
    /\ \A q1 \in QueryPool, q2 \in QueryPool :
          (/\ ~isBlankQuery(q1)
           /\ ~isBlankQuery(q2)
           /\ normalizeQuery(q1) = normalizeQuery(q2))
          => searchPosts(searchIndex, posts, searchCache, q1, resolvePageable(0, 1))
               = searchPosts(searchIndex, posts, searchCache, q2, resolvePageable(0, 1))

\* C16: after any sequence of createPost, updatePost and deletePost calls
\* that completed (returned, or failed before they changed anything), the
\* index holds an entry for an id exactly when the post is in the store, and
\* the entry's title, content, excerpt and tags are the stored post's.
C16_IndexFollowsPosts ==
    /\ DOMAIN searchIndex = DOMAIN posts
    /\ \A k \in DOMAIN posts :
          /\ searchIndex[k].id = posts[k].id
          /\ searchIndex[k].title = posts[k].title
          /\ searchIndex[k].content = posts[k].content
          /\ searchIndex[k].excerpt = posts[k].excerpt
          /\ searchIndex[k].tags = posts[k].tags

\* C16 witness: two posts were created, the first deleted and the second
\* updated; the index holds the second only, with the fields of the update.
C16_Witness ==
    /\ last.op = "updatePost"
    /\ last.outcome.status = "ok"
    /\ nextId = 3
    /\ DOMAIN posts = {2}
    /\ DOMAIN searchIndex = {2}
    /\ searchIndex[2].title = last.request.title
    /\ searchIndex[2].excerpt = last.request.excerpt
    /\ searchIndex[2].content = last.request.content

\* C17: under any interleaving of indexPost(d1), indexPost(d2),
\* removePostFromIndex(id) and a running search, every entry the search
\* reads is, in all its fields, one complete document that was passed to
\* indexPost for that id; a mix of the fields of two versions is never read.
C17_ReadsAreWholeDocuments ==
    \A i \in 1..Len(scan.read) :
        \E post \in ConcurrentPosts :
            scan.read[i] = [id |-> scan.read[i].id,
                            title |-> post.title,
                            content |-> post.content,
                            excerpt |-> post.excerpt,
                            tags |-> post.tags]

\* C17 witness: a search is running and has read the entry of id 1 but not
\* yet that of id 2, and id 1 has been indexed again with the other document
\* since: what the search read for id 1 is not what the index holds now.
C17_Witness ==
    /\ scan.active
    /\ Len(scan.read) = 1
    /\ scan.read[1].id = 1
    /\ last.op = "indexPost"
    /\ last.id = 1
    /\ scan.read[1] # searchIndex[1]
    /\ 2 \in DOMAIN searchIndex

\* C18: a searchPosts, createPost, updatePost or deletePost call that ends
\* in an error, a failure of the database after the index call included,
\* leaves the index as it was before the call and returns no result.
C18_ErrorLeavesIndexAlone ==
    [][(/\ last'.op \in {"searchPosts", "createPost", "updatePost", "deletePost"}
        /\ last'.outcome.status = "error")
       => /\ searchIndex' = searchIndex
          /\ last'.outcome.page = NoPage]_vars

\* The entry of id k is not the same before and after the step: it was
\* inserted, changed or deleted.
EntryChanged(k) ==
    \/ (k \in DOMAIN searchIndex) # (k \in DOMAIN searchIndex')
    \/ /\ k \in DOMAIN searchIndex
       /\ k \in DOMAIN searchIndex'
       /\ searchIndex[k] # searchIndex'[k]

\* C19: an index entry changes only through indexPost or
\* removePostFromIndex of its own id (called directly or by createPost and
\* deletePost): a search inserts, changes and deletes nothing, a call for
\* another id leaves the entry alone, and no entry goes away on its own.
C19_EntryChangesOnlyByOwnId ==
    [][\A k \in Ids :
          EntryChanged(k)
            => /\ last'.op \in {"indexPost", "removePostFromIndex",
                                "createPost", "deletePost"}
               /\ last'.id = k]_vars

\* C19 witness: createPost indexed post 1 and the next call indexed a
\* document under id 2; the entry of id 1 is still the one of the post.
C19_Witness ==
    /\ calls = 2
    /\ last.op = "indexPost"
    /\ last.id = 2
    /\ DOMAIN posts = {1}
    /\ DOMAIN searchIndex = {1, 2}
    /\ searchIndex[1].title = posts[1].title
    /\ searchIndex[1].content = posts[1].content
    /\ searchIndex[1].excerpt = posts[1].excerpt
    /\ searchIndex[1].tags = posts[1].tags

\* C20: every getPost(id) that returns for a stored post adds exactly 1 to
\* the stored viewCount of that post, repeated calls for the same id
\* included.
C20_GetPostCountsView ==
    [][(/\ last'.op = "getPost"
        /\ last'.outcome.status = "ok")
       => /\ last'.id \in DOMAIN posts
          /\ last'.id \in DOMAIN posts'
          /\ posts'[last'.id].viewCount = posts[last'.id].viewCount + 1]_vars

\* C21: when an add-comment request with parentComment = P completes, the
\* new comment is recorded as a reply of P (P.replies contains its id), and
\* the comment listing of a post holds approved top-level comments only.
C21_ReplyRecordedUnderParent ==
    /\ [][(/\ last'.op = "addComment"
            /\ last'.size # NoId
            /\ last'.size \in DOMAIN comments')
           => \E i \in 1..Len(comments'[last'.size].replies) :
                 comments'[last'.size].replies[i] = last'.id]_vars
    /\ [](\A id \in KnownIds : \A c \in getComments(comments, id) :
             /\ comments[c.id].status = "approved"
             /\ comments[c.id].parentComment = NoId)

\* C25: once every request has completed, no stored comment references a
\* post that does not exist; in particular an add-comment for a post id
\* that does not exist stores no comment.
C25_NoCommentWithoutPost ==
    inflight = EmptyMap
        => \A c \in DOMAIN comments : comments[c].post \in DOMAIN blogPosts

\* C22: the public post listing returns only posts whose status is
\* published, whatever the page and the search keyword, also when the
\* listing is answered through the search index.
C22_ListingReturnsPublishedOnly ==
    (last.op = "getPosts" /\ last.outcome.status = "ok")
        => \A i \in 1..Len(last.outcome.page.content) :
              last.outcome.page.content[i].status = "PUBLISHED"

\* C23: view counting loses no update: every view request that completes
\* leaves the stored view count of its post one above what it was, also
\* when the view requests of a post run concurrently.
C23_NoViewUpdateLost ==
    [][/\ \A t \in Threads :
            IncrementViewCountSave(t)
                => posts'[inflight[t].postId].viewCount
                       = posts[inflight[t].postId].viewCount + 1
       /\ \A t \in Threads :
            GetBlogPostSave(t)
                => blogPosts'[inflight[t].postId].views
                       = blogPosts[inflight[t].postId].views + 1]_vars

\* C24: publishedAt is never changed once it is set: whatever sequence of
\* publish, draft, archive, re-publish and status updates a post goes
\* through, a post that has a publishedAt keeps that value.
C24_PublishedAtNeverChanges ==
    [][/\ \A id \in DOMAIN posts \cap DOMAIN posts' :
            posts[id].publishedAt # NoTime
                => posts'[id].publishedAt = posts[id].publishedAt
       /\ \A id \in DOMAIN blogPosts \cap DOMAIN blogPosts' :
            blogPosts[id].publishedAt # NoTime
                => blogPosts'[id].publishedAt = blogPosts[id].publishedAt]_vars

\* C26: a fetch of a contact changes its status from 'new' to 'read' and
\* leaves a contact of any other status as it is, so that a 'replied'
\* contact never goes back to 'read' by being viewed; a reply whose mail
\* fails changes nothing; and a reply that completes leaves the contact
\* 'replied' with repliedAt and repliedBy set.
C26_ContactStatusSteps ==
    [][/\ \A t \in Threads :
            GetContactSave(t)
                => LET id == inflight[t].postId
                   IN \/ contacts[id].status = "new" /\ contacts'[id].status = "read"
                      \/ contacts'[id] = contacts[id]
       /\ \A t \in Threads : ReplySendMail(t, FALSE) => contacts' = contacts
       /\ \A t \in Threads :
            ReplySave(t)
                => /\ contacts'[inflight[t].postId].status = "replied"
                   /\ contacts'[inflight[t].postId].repliedAt # NoTime
                   /\ contacts'[inflight[t].postId].repliedBy = AdminId]_vars

\* C27: generateSlug makes slugs unique: whatever the interleaving of the
\* createPost and updatePost calls, two concurrent calls with the same
\* title included, no call fails on the unique constraint of the slug and
\* no two stored posts have the same slug.
C27_SlugsUniqueNoCallFails ==
    /\ last.outcome.error # UniqueSlugError
    /\ \A i, j \in DOMAIN posts : posts[i].slug = posts[j].slug => i = j

\* C28: search results are never stale: the outcome of every searchPosts
\* call is the one computed from the index as it is at the call, so a search
\* repeated after indexPost added or replaced a matching document includes
\* that document.  Stated for the searches with a query that is not blank.
C28_SearchNeverStale ==
    (LastSearch /\ ~isBlankQuery(last.query))
        => last.outcome = searchPostsBody(searchIndex, posts, last.query,
                                          resolvePageable(last.page, last.size))

\* C29: whatever the interleaving of a concurrent updatePost(id) and
\* deletePost(id), once the calls have completed the index holds no entry
\* for a post that is absent from the store, and no search fails on an
\* entry of a deleted post.
C29_NoEntryForDeletedPost ==
    inflight = EmptyMap
        => /\ \A k \in DOMAIN searchIndex : k \in DOMAIN posts
           /\ LastSearch => last.outcome.error # PostNotFoundError

\* C30: an updatePost with the title the post already has leaves the slug
\* of the post unchanged, however many such updates follow one another.
C30_SameTitleKeepsSlug ==
    [][\A id \in Ids, request \in RequestPool :
          (/\ UpdatePost(id, request, FALSE)
           /\ id \in DOMAIN posts
           /\ request.title = posts[id].title)
              => posts'[id].slug = posts[id].slug]_vars

====
